---- MODULE Spec2Model ----
(***************************************************************************)
(* Model of the token_expander crate (src/src/lib.rs): the Tokenizer       *)
(* iterator over a shell-like pattern and the TokenizerExt::expand fold.   *)
(*                                                                         *)
(* The pattern is a sequence of bytes (Rust &str, valid UTF-8).  Offsets   *)
(* are 0-based byte offsets as in the source; Byte(i) is bytes[i] and      *)
(* Slice(a, b) is &data[a..b].                                             *)
(***************************************************************************)
EXTENDS Integers, Sequences, FiniteSets, TLC

\* ------------------------------------------------------------------ bounds
\* Longest pattern (in bytes) tokenized under Spec.
MaxLen == 6
\* Longest pattern (in bytes) folded by expand under SpecExpand.
MaxExpandLen == 4
\* Longest pattern explored where the accessors are called between next() calls.
MaxQueryLen == 3
\* Longest pattern explored with escape bytes that are not ASCII.
MaxWideLen == 4
\* Most consecutive "${" at the head of a pattern where the depth counter is
\* driven to the end of its u8 range.
MaxOpens == 257

\* --------------------------------------------------------- program constants
ESCAPED == 1
INNER_TOKENS == 2

DOLLAR == 36
LBRACE == 123
RBRACE == 125
BACKSLASH == 92
\* '#', the alternative escape byte of the crate's examples and tests.
HASH == 35
\* The two bytes of U+00E9, a multi-byte code point.
E_ACUTE == <<195, 169>>

\* Bytes a pattern is drawn from: the delimiters, the two escape bytes used in
\* the source, and one two-byte code point.
PatternBytes == {DOLLAR, LBRACE, RBRACE, BACKSLASH, HASH, E_ACUTE[1], E_ACUTE[2]}

\* Escape bytes installed with set_escape under Spec (all ASCII).
AsciiEscapes == {BACKSLASH, HASH, DOLLAR, LBRACE, RBRACE}

\* Error values a resolver may return from expand's closure.
ResolverErrors == {"e1", "e2"}

\* Escape bytes installed with set_escape where any u8 is allowed: the ASCII
\* ones and the two bytes of a two-byte code point.
AnyEscapes == AsciiEscapes \cup {E_ACUTE[1], E_ACUTE[2]}

VARIABLES
    data,      \* Tokenizer.data, the borrowed pattern
    read,      \* Tokenizer.read, the cursor
    flags,     \* Tokenizer.flags, a bit mask of ESCAPED and INNER_TOKENS
    level,     \* Tokenizer.level, the nesting depth
    escape,    \* Tokenizer.escape
    ret,       \* what the last call of next() returned
    out,       \* every token next() has returned so far, in order
    exPc,      \* expand: "idle", "pull" (at `for token in self`), "map", "returned"
    exOut,     \* expand: the String `output`
    exTok,     \* expand: the token bound by the for loop
    exCalls,   \* expand: the tokens the closure `map` was invoked with, in order
    exWrites,  \* expand: what each invocation of `map` pushed to the buffer
    exMapRet,  \* expand: what the last invocation of `map` returned
    exPulls,   \* expand: number of next() calls the current expand made
    exBase,    \* expand: Len(out) when the current expand began
    exRes,     \* expand: its return value
    query,     \* what the last call of a read-only accessor returned
    overflowChecks  \* whether the build panics on integer overflow (debug) or wraps

scanVars == <<data, read, flags, level, escape, ret, out>>
exVars == <<exPc, exOut, exTok, exCalls, exWrites, exMapRet, exPulls, exBase, exRes>>
envVars == <<query, overflowChecks>>
vars == <<data, read, flags, level, escape, ret, out,
          exPc, exOut, exTok, exCalls, exWrites, exMapRet, exPulls, exBase, exRes,
          query, overflowChecks>>

\* ------------------------------------------------------------ byte helpers
DataLen == Len(data)
Byte(i) == data[i + 1]
Slice(a, b) == SubSeq(data, a + 1, b)

\* str::is_char_boundary
IsCharBoundary(i) ==
    \/ i = 0
    \/ i = DataLen
    \/ i > 0 /\ i < DataLen /\ (Byte(i) < 128 \/ Byte(i) >= 192)

\* Width of the code point whose first byte is b (char::len_utf8 of the decoded char).
CharLen(b) ==
    IF b < 128 THEN 1 ELSE IF b < 224 THEN 2 ELSE IF b < 240 THEN 3 ELSE 4

\* A byte sequence that is valid UTF-8 over PatternBytes.
RECURSIVE ValidUtf8(_)
ValidUtf8(s) ==
    IF s = <<>> THEN TRUE
    ELSE IF s[1] < 128 THEN ValidUtf8(Tail(s))
    ELSE /\ s[1] = E_ACUTE[1]
         /\ Len(s) >= 2
         /\ s[2] = E_ACUTE[2]
         /\ ValidUtf8(Tail(Tail(s)))

PatternsUpTo(n) ==
    {s \in UNION {[1..k -> PatternBytes] : k \in 0..n} : ValidUtf8(s)}

\* ------------------------------------------------------------------ flags
HasFlag(f, bit) == (f \div bit) % 2 = 1
\* f |= bit
SetFlag(f, bit) == IF HasFlag(f, bit) THEN f ELSE f + bit
\* f ^= bit
ToggleFlag(f, bit) == IF HasFlag(f, bit) THEN f - bit ELSE f + bit
\* f &= bit ^ 255
ClearFlag(f, bit) == IF HasFlag(f, bit) THEN f - bit ELSE f

\* ------------------------------------------------------------------ tokens
NoToken == [kind |-> "None"]
NotCalled == [kind |-> "NotCalled"]
Panic == [kind |-> "Panic"]
\* No value yet: expand has not returned, the closure has not been invoked.
NoReturn == [kind |-> "none"]
Escaped(ch) == [kind |-> "Escaped", ch |-> ch]
\* Key(&data[a..b], nested) and Normal(&data[a..b]): a slice is its two offsets.
Key(a, b, nested) == [kind |-> "Key", start |-> a, end |-> b, nested |-> nested]
Normal(a, b) == [kind |-> "Normal", start |-> a, end |-> b]
Text(tok) == Slice(tok.start, tok.end)

\* The outcome of a call: the fields it leaves and the value it returns.
Outcome(rd, fl, lv, r) == [read |-> rd, flags |-> fl, level |-> lv, ret |-> r]

\* &self.data[a..b] panics unless both ends are code-point boundaries.
SliceOk(a, b) == a <= b /\ IsCharBoundary(a) /\ IsCharBoundary(b)

\* ------------------------------------------------------- Tokenizer::next
\* escaped_character with the cursor moved one byte also when nothing is left.
escaped_character_PastEnd(rd, fl, lv) ==
    IF ~IsCharBoundary(rd) THEN Outcome(rd, fl, lv, Panic)
    ELSE IF rd < DataLen
    THEN Outcome(rd + CharLen(Byte(rd)), fl, lv,
                 Escaped(Slice(rd, rd + CharLen(Byte(rd)))))
    ELSE Outcome(rd + 1, fl, lv, Escaped(<<BACKSLASH>>))

\* fn escaped_character: decode the code point at the cursor, or yield '\\'
\* when nothing is left.
escaped_character(rd, fl, lv) ==
    IF ~IsCharBoundary(rd) THEN Outcome(rd, fl, lv, Panic)
    ELSE IF rd < DataLen
    THEN Outcome(rd + CharLen(Byte(rd)), fl, lv,
                 Escaped(Slice(rd, rd + CharLen(Byte(rd)))))
    ELSE Outcome(rd, fl, lv, Escaped(<<BACKSLASH>>))

\* IsOpen with only the second byte of "${" compared.
IsOpen_AnyBeforeBrace(rd) ==
    /\ DataLen - rd > 2
    /\ Byte(rd + 1) = LBRACE

\* The guard of the third branch of the loop: "${" with more than two bytes left.
IsOpen(rd) ==
    /\ DataLen - rd > 2
    /\ Byte(rd) = DOLLAR
    /\ Byte(rd + 1) = LBRACE

\* self.level += 1 on a u8: the sum wraps in a build without overflow checks.
LevelInc(lv) == (lv + 1) % 256

\* self.level += 1 panics in a build with overflow checks when level is u8::MAX.
LevelOverflows(lv) == overflowChecks /\ lv + 1 >= 256

\* The loop goes on to its next iteration from cursor rd, the span begun at start.
Continue(rd, fl, lv, start) ==
    Outcome(rd, fl, lv, [kind |-> "Continue", start |-> start])

\* OnEscape with the text before the escape byte returned even when empty.
OnEscape_AlwaysDefers(rd, fl, lv, start) ==
    IF ~SliceOk(start, rd) THEN Outcome(rd, fl, lv, Panic)
    ELSE Outcome(rd + 1, SetFlag(fl, ESCAPED), lv, Normal(start, rd))

\* First branch: the escape byte at level 0.
OnEscape(rd, fl, lv, start) ==
    IF ~SliceOk(start, rd) THEN Outcome(rd, fl, lv, Panic)
    ELSE IF start = rd THEN escaped_character(rd + 1, fl, lv)
    ELSE Outcome(rd + 1, SetFlag(fl, ESCAPED), lv, Normal(start, rd))

\* OnClose with the key ended by the first '}' whatever the depth.
OnClose_FirstBrace(rd, fl, lv, start) ==
    IF SliceOk(start, rd)
    THEN Outcome(rd + 1, ClearFlag(fl, INNER_TOKENS), 0,
                 Key(start, rd, HasFlag(fl, INNER_TOKENS)))
    ELSE Outcome(rd + 1, fl, 0, Panic)

\* Second branch: '}' at level # 0.
OnClose(rd, fl, lv, start) ==
    IF lv - 1 = 0
    THEN IF SliceOk(start, rd)
         THEN Outcome(rd + 1, ClearFlag(fl, INNER_TOKENS), 0,
                      Key(start, rd, HasFlag(fl, INNER_TOKENS)))
         ELSE Outcome(rd + 1, fl, 0, Panic)
    ELSE Continue(rd + 1, fl, lv - 1, start)

\* OnOpen with the cursor moved one byte, not two, past an outermost "${".
OnOpen_SkipsOneByte(rd, fl, lv, start) ==
    IF lv = 0
    THEN IF ~SliceOk(start, rd) THEN Outcome(rd, fl, lv, Panic)
         ELSE IF start # rd
         THEN Outcome(rd + 1, fl, LevelInc(lv), Normal(start, rd))
         ELSE Continue(rd + 1, fl, LevelInc(lv), rd + 1)
    ELSE Continue(rd + 2, SetFlag(fl, INNER_TOKENS), LevelInc(lv), start)

\* OnOpen with the text before an outermost "${" returned even when empty.
OnOpen_EmitsEmpty(rd, fl, lv, start) ==
    IF lv = 0
    THEN IF ~SliceOk(start, rd) THEN Outcome(rd, fl, lv, Panic)
         ELSE Outcome(rd + 2, fl, LevelInc(lv), Normal(start, rd))
    ELSE Continue(rd + 2, SetFlag(fl, INNER_TOKENS), LevelInc(lv), start)

\* Third branch: "${".
OnOpen(rd, fl, lv, start) ==
    IF LevelOverflows(lv) THEN Outcome(rd, SetFlag(fl, INNER_TOKENS), lv, Panic)
    ELSE IF lv = 0
    THEN IF ~SliceOk(start, rd) THEN Outcome(rd, fl, lv, Panic)
         ELSE IF start # rd
         THEN Outcome(rd + 2, fl, LevelInc(lv), Normal(start, rd))
         ELSE Continue(rd + 2, fl, LevelInc(lv), rd + 2)
    ELSE Continue(rd + 2, SetFlag(fl, INNER_TOKENS), LevelInc(lv), start)

\* AtEnd with the rest of the input always returned as Normal.
AtEnd_IgnoresLevel(fl, lv, start) ==
    IF ~SliceOk(start, DataLen) THEN Outcome(DataLen, fl, lv, Panic)
    ELSE IF start = DataLen THEN Outcome(DataLen, fl, lv, NoToken)
    ELSE Outcome(DataLen, fl, lv, Normal(start, DataLen))

\* After the loop: the cursor is at the end of the pattern.
AtEnd(fl, lv, start) ==
    IF ~SliceOk(start, DataLen) THEN Outcome(DataLen, fl, lv, Panic)
    ELSE IF start = DataLen THEN Outcome(DataLen, fl, lv, NoToken)
    ELSE IF lv # 0
    THEN Outcome(DataLen, ClearFlag(fl, INNER_TOKENS), lv,
                 Key(start, DataLen, HasFlag(fl, INNER_TOKENS)))
    ELSE Outcome(DataLen, fl, lv, Normal(start, DataLen))

\* Iteration with the escape byte honoured at every depth.
Iteration_EscapeAtAnyLevel(rd, fl, lv, start) ==
    IF rd < DataLen
    THEN IF Byte(rd) = escape THEN OnEscape(rd, fl, lv, start)
         ELSE IF lv # 0 /\ Byte(rd) = RBRACE THEN OnClose(rd, fl, lv, start)
         ELSE IF IsOpen(rd) THEN OnOpen(rd, fl, lv, start)
         ELSE Continue(rd + 1, fl, lv, start)
    ELSE AtEnd(fl, lv, start)

\* Iteration with '}' taken as a closing delimiter at every depth.
Iteration_CloseAtAnyLevel(rd, fl, lv, start) ==
    IF rd < DataLen
    THEN IF lv = 0 /\ Byte(rd) = escape THEN OnEscape(rd, fl, lv, start)
         ELSE IF Byte(rd) = RBRACE THEN OnClose(rd, fl, lv, start)
         ELSE IF IsOpen(rd) THEN OnOpen(rd, fl, lv, start)
         ELSE Continue(rd + 1, fl, lv, start)
    ELSE AtEnd(fl, lv, start)

\* The loop test and one pass through the loop body, or the code after the
\* loop once the test fails.
Iteration(rd, fl, lv, start) ==
    IF rd < DataLen
    THEN IF lv = 0 /\ Byte(rd) = escape THEN OnEscape(rd, fl, lv, start)
         ELSE IF lv # 0 /\ Byte(rd) = RBRACE THEN OnClose(rd, fl, lv, start)
         ELSE IF IsOpen(rd) THEN OnOpen(rd, fl, lv, start)
         ELSE Continue(rd + 1, fl, lv, start)
    ELSE AtEnd(fl, lv, start)

\* At most n iterations from loop state o, stopping at the first return. Long
\* runs are cut in halves so that the evaluation stays shallow on patterns of
\* hundreds of bytes.
RECURSIVE Iterate(_, _)
Iterate(o, n) ==
    IF o.ret.kind # "Continue" \/ n <= 0 THEN o
    ELSE IF n <= 8
    THEN Iterate(Iteration(o.read, o.flags, o.level, o.ret.start), n - 1)
    ELSE LET half == Iterate(o, n \div 2)
         IN  Iterate(half, n - (n \div 2))

\* The while loop of next() and the code after it, from cursor rd with the
\* span begun at start: every iteration moves the cursor forward, so
\* len - rd iterations and the code after the loop end the call.
Scan(rd, fl, lv, start) ==
    Iterate(Continue(rd, fl, lv, start), DataLen - rd + 1)

\* NextCall with the end-of-input test made before the pending escape is served.
NextCall_EndFirst ==
    IF read >= DataLen THEN Outcome(read, flags, level, NoToken)
    ELSE IF HasFlag(flags, ESCAPED)
    THEN escaped_character(read, ToggleFlag(flags, ESCAPED), level)
    ELSE Scan(read, flags, level, read)

\* One call of Iterator::next on the tokenizer.
NextCall ==
    IF HasFlag(flags, ESCAPED)
    THEN escaped_character(read, ToggleFlag(flags, ESCAPED), level)
    ELSE IF read >= DataLen THEN Outcome(read, flags, level, NoToken)
    ELSE Scan(read, flags, level, read)

IsToken(r) == r.kind \in {"Normal", "Escaped", "Key"}

\* The effect of one next() call on the tokenizer's fields.
Advance(o) ==
    /\ read' = o.read
    /\ flags' = o.flags
    /\ level' = o.level
    /\ ret' = o.ret
    /\ out' = IF IsToken(o.ret) THEN Append(out, o.ret) ELSE out
    /\ UNCHANGED <<data, escape>>

\* ----------------------------------------------------------------- actions
\* Tokenizer::new(data): '\\' is the escape byte, nothing read.
new(pattern) ==
    /\ data = pattern
    /\ read = 0
    /\ level = 0
    /\ flags = 0
    /\ escape = BACKSLASH
    /\ ret = NotCalled
    /\ out = <<>>
    /\ exPc = "idle"
    /\ exOut = <<>>
    /\ exTok = NoToken
    /\ exCalls = <<>>
    /\ exWrites = <<>>
    /\ exMapRet = NoReturn
    /\ exPulls = 0
    /\ exBase = 0
    /\ exRes = NoReturn
    /\ query = NoReturn

\* set_escape(self, escape) -> Self: the builder call, made on the freshly
\* constructed tokenizer before it is iterated.
set_escape(e) ==
    /\ ret = NotCalled
    /\ exPc = "idle"
    /\ escape' = e
    /\ UNCHANGED <<data, read, flags, level, ret, out>>
    /\ UNCHANGED exVars
    /\ UNCHANGED envVars

\* A direct call of next() by the owner of the tokenizer (not inside expand,
\* which borrows it mutably while it runs).
next ==
    /\ ret.kind # "Panic"
    /\ exPc \in {"idle", "returned"}
    /\ Advance(NextCall)
    /\ UNCHANGED exVars
    /\ UNCHANGED envVars

\* ------------------------------------------------- TokenizerExt::expand
Ok(v) == [kind |-> "Ok", val |-> v]
Err(e) == [kind |-> "Err", val |-> e]

\* What the closure `map` may return.
MapReturns == {Ok(TRUE), Ok(FALSE)} \cup {Err(e) : e \in ResolverErrors}

\* What the closure may push to the buffer for a token: nothing, or a piece
\* standing for the text it resolved the token to.
MapWrites(tok) == {<<>>, <<tok>>}

\* AfterMap with an error of the closure dropped and the loop continued.
AfterMap_SwallowsErr(r, buf) ==
    IF r.kind = "Err" THEN [pc |-> "pull", res |-> NoReturn]
    ELSE IF ~r.val THEN [pc |-> "returned", res |-> Ok(buf)]
    ELSE [pc |-> "pull", res |-> NoReturn]

\* AfterMap with the test of the closure's boolean inverted.
AfterMap_Inverted(r, buf) ==
    IF r.kind = "Err" THEN [pc |-> "returned", res |-> Err(r.val)]
    ELSE IF r.val THEN [pc |-> "returned", res |-> Ok(buf)]
    ELSE [pc |-> "pull", res |-> NoReturn]

\* `if ! map(&mut output, token)? { break; }`: where expand goes after the
\* closure returned r with the buffer holding buf, and what it returns.
AfterMap(r, buf) ==
    IF r.kind = "Err" THEN [pc |-> "returned", res |-> Err(r.val)]
    ELSE IF ~r.val THEN [pc |-> "returned", res |-> Ok(buf)]
    ELSE [pc |-> "pull", res |-> NoReturn]

\* The for loop ran out of tokens: shrink_to_fit and Ok(output).
AfterLoop(buf) == [pc |-> "returned", res |-> Ok(buf)]

\* expand(&mut self, map) is entered: the buffer is allocated empty.
expand_begin ==
    /\ ret.kind # "Panic"
    /\ exPc \in {"idle", "returned"}
    /\ exPc' = "pull"
    /\ exOut' = <<>>
    /\ exTok' = NoToken
    /\ exCalls' = <<>>
    /\ exWrites' = <<>>
    /\ exMapRet' = NoReturn
    /\ exPulls' = 0
    /\ exBase' = Len(out)
    /\ exRes' = NoReturn
    /\ UNCHANGED scanVars
    /\ UNCHANGED envVars

\* `for token in self`: one next() call made by expand.
expand_pull ==
    /\ exPc = "pull"
    /\ LET o == NextCall IN
        /\ Advance(o)
        /\ exPulls' = exPulls + 1
        /\ IF IsToken(o.ret)
           THEN /\ exTok' = o.ret
                /\ exPc' = "map"
                /\ exRes' = exRes
           ELSE IF o.ret.kind = "Panic"
           THEN /\ exTok' = exTok
                /\ exPc' = "panicked"
                /\ exRes' = exRes
           ELSE /\ exTok' = exTok
                /\ exPc' = AfterLoop(exOut).pc
                /\ exRes' = AfterLoop(exOut).res
    /\ UNCHANGED <<exOut, exCalls, exWrites, exMapRet, exBase>>
    /\ UNCHANGED envVars

\* expand_map with the next token pulled from the scanner before the
\* closure's answer is looked at.
expand_map_PullsAhead(w, r) ==
    /\ exPc = "map"
    /\ exCalls' = Append(exCalls, exTok)
    /\ exWrites' = Append(exWrites, w)
    /\ exOut' = exOut \o w
    /\ exMapRet' = r
    /\ exPc' = AfterMap(r, exOut \o w).pc
    /\ exRes' = AfterMap(r, exOut \o w).res
    /\ UNCHANGED <<exTok, exPulls, exBase>>
    /\ Advance(NextCall)
    /\ UNCHANGED envVars

\* `map(&mut output, token)?`: the closure pushes w and returns r.
expand_map(w, r) ==
    /\ exPc = "map"
    /\ exCalls' = Append(exCalls, exTok)
    /\ exWrites' = Append(exWrites, w)
    /\ exOut' = exOut \o w
    /\ exMapRet' = r
    /\ exPc' = AfterMap(r, exOut \o w).pc
    /\ exRes' = AfterMap(r, exOut \o w).res
    /\ UNCHANGED <<exTok, exPulls, exBase>>
    /\ UNCHANGED scanVars
    /\ UNCHANGED envVars

\* No pattern of Spec or SpecExpand is long enough to nest 256 openings, so
\* the overflow setting of the build cannot show there: one setting is kept.
Init ==
    /\ \E pattern \in PatternsUpTo(MaxLen) : new(pattern)
    /\ overflowChecks = FALSE

\* The tokenizer driven by direct next() calls.
Next ==
    \/ \E e \in AsciiEscapes : set_escape(e)
    \/ next

Spec == Init /\ [][Next]_vars

InitExpand ==
    /\ \E pattern \in PatternsUpTo(MaxExpandLen) : new(pattern)
    /\ overflowChecks = FALSE

\* The tokenizer driven by expand, and by next() between expand calls.
NextExpand ==
    \/ \E e \in AsciiEscapes : set_escape(e)
    \/ next
    \/ expand_begin
    \/ expand_pull
    \/ \E r \in MapReturns : \E w \in MapWrites(exTok) : expand_map(w, r)

SpecExpand == InitExpand /\ [][NextExpand]_vars

\* fn is_empty(&self) -> bool { self.len() != 0 }
is_empty ==
    /\ ret.kind # "Panic"
    /\ exPc \in {"idle", "returned"}
    /\ query' = [kind |-> "is_empty", val |-> (DataLen # 0)]
    /\ UNCHANGED scanVars
    /\ UNCHANGED exVars
    /\ UNCHANGED overflowChecks

\* fn len(&self) -> usize { self.data.len() }
len ==
    /\ ret.kind # "Panic"
    /\ exPc \in {"idle", "returned"}
    /\ query' = [kind |-> "len", val |-> DataLen]
    /\ UNCHANGED scanVars
    /\ UNCHANGED exVars
    /\ UNCHANGED overflowChecks

InitIntrospect ==
    /\ \E pattern \in PatternsUpTo(MaxQueryLen) : new(pattern)
    /\ overflowChecks = FALSE

\* next() calls with the accessors of TokenizerExt called in between.
NextIntrospect ==
    \/ \E e \in AsciiEscapes : set_escape(e)
    \/ next
    \/ is_empty
    \/ len

SpecIntrospect == InitIntrospect /\ [][NextIntrospect]_vars

InitAnyEscape ==
    /\ \E pattern \in PatternsUpTo(MaxWideLen) : new(pattern)
    /\ overflowChecks = FALSE

\* next() calls after set_escape with any of the bytes in AnyEscapes.
NextAnyEscape ==
    \/ \E e \in AnyEscapes : set_escape(e)
    \/ next

SpecAnyEscape == InitAnyEscape /\ [][NextAnyEscape]_vars

\* k times "${".
Opens(k) == [i \in 1..(2 * k) |-> IF i % 2 = 1 THEN DOLLAR ELSE LBRACE]

\* What follows the openings in the deep patterns.
DeepTails ==
    {<<HASH>>, <<RBRACE>>, <<HASH, RBRACE>>, <<RBRACE, HASH>>,
     <<RBRACE, RBRACE>>, <<HASH, HASH>>}

\* Patterns of up to MaxOpens consecutive "${"; the build either checks the
\* arithmetic on level (the default of a debug build) or lets it wrap (the
\* default of a release build).
InitDeep ==
    /\ \E k \in (MaxOpens - 8)..MaxOpens : \E tail \in DeepTails :
           new(Opens(k) \o tail)
    /\ overflowChecks \in BOOLEAN

NextDeep ==
    \/ \E e \in AsciiEscapes : set_escape(e)
    \/ next

SpecDeep == InitDeep /\ [][NextDeep]_vars

\* ================================================================= claims
\* Whether the byte sequence t holds a complete "${".
ContainsOpen(t) ==
    \E j \in 1..(Len(t) - 1) : t[j] = DOLLAR /\ t[j + 1] = LBRACE

KeysOf(toks) == {i \in 1..Len(toks) : toks[i].kind = "Key"}
NormalsOf(toks) == {i \in 1..Len(toks) : toks[i].kind = "Normal"}
EscapedOf(toks) == {i \in 1..Len(toks) : toks[i].kind = "Escaped"}

\* C1: every Key token's flag is true if and only if its text contains a
\* complete "${", whether the key was closed by '}' or cut off by the end of
\* the input.
C1_HasNestedIffOpen ==
    \A i \in KeysOf(out) : out[i].nested <=> ContainsOpen(Text(out[i]))

\* What a token contributes to the reconstruction of the pattern, as C2 counts
\* it: Normal its text, Escaped its decoded character, Key its text between
\* "${" and "}".
Contribution(tok) ==
    IF tok.kind = "Normal" THEN Text(tok)
    ELSE IF tok.kind = "Escaped" THEN tok.ch
    ELSE <<DOLLAR, LBRACE>> \o Text(tok) \o <<RBRACE>>

RECURSIVE Reconstruct(_)
Reconstruct(toks) ==
    IF toks = <<>> THEN <<>>
    ELSE Contribution(Head(toks)) \o Reconstruct(Tail(toks))

C3_TrailingEscapeIsEscapeByte ==
    ( /\ ret.kind = "Escaped"
      /\ read = DataLen
      /\ DataLen > 0
      /\ Byte(DataLen - 1) = escape )
    => ret.ch = <<escape>>

\* C4: no Normal token's text contains "${".
C4_NoOpenInNormal ==
    \A i \in NormalsOf(out) : ~ContainsOpen(Text(out[i]))

\* C5: right after next() returned a Key token the depth is 0 and the
\* nested-found flag is clear.
C5_KeyLeavesNoNesting ==
    ret.kind = "Key" => level = 0 /\ ~HasFlag(flags, INNER_TOKENS)

\* The offset of the '}' that balances an opening whose key starts at i, with
\* d openings not yet closed; -1 when the pattern ends first.
RECURSIVE Balance(_, _)
Balance(i, d) ==
    IF i >= DataLen THEN -1
    ELSE IF Byte(i) = RBRACE
    THEN IF d = 1 THEN i ELSE Balance(i + 1, d - 1)
    ELSE IF Byte(i) = DOLLAR /\ i + 1 < DataLen /\ Byte(i + 1) = LBRACE
    THEN Balance(i + 2, d + 1)
    ELSE Balance(i + 1, d)

\* C6: a Key token closed by '}' spans exactly the bytes between an outermost
\* "${" and the '}' that balances it, and its flag tells whether an opening
\* is nested in it.
C6_KeyIsBalancedSpan ==
    \A i \in KeysOf(out) :
        out[i].end < DataLen =>
            /\ out[i].start >= 2
            /\ Byte(out[i].start - 2) = DOLLAR
            /\ Byte(out[i].start - 1) = LBRACE
            /\ Byte(out[i].end) = RBRACE
            /\ out[i].end = Balance(out[i].start, 1)
            /\ out[i].nested <=> ContainsOpen(Text(out[i]))

\* A closed key with a closed key nested in it, such as "${${}}".
C6_Witness ==
    /\ ret.kind = "Key"
    /\ ret.end < DataLen
    /\ ret.nested
    /\ \E j \in ret.start..(ret.end - 1) : Byte(j) = RBRACE

\* A step that is a call of next().
NextStep ==
    \/ read' # read
    \/ flags' # flags
    \/ level' # level
    \/ ret' # ret
    \/ out' # out

\* The code point at offset i of the pattern.
CharAt(i) == Slice(i, i + CharLen(Byte(i)))

\* C7, for one call of next():
\*  - a pending escape is served first: the call returns Escaped, of the code
\*    point at the cursor when there is one, and moves past it;
\*  - an escape byte at the cursor at depth 0 is served in the same call;
\*  - a Normal token that ends at an escape byte arms the pending escape and
\*    leaves the cursor after the escape byte;
\*  - an Escaped token leaves the depth at 0, and after Escaped('$') a '{' at
\*    the cursor begins a Normal token, not a placeholder.
C7_Step ==
    NextStep =>
        /\ HasFlag(flags, ESCAPED) =>
              /\ ret'.kind = "Escaped"
              /\ ~HasFlag(flags', ESCAPED)
              /\ read < DataLen =>
                    ret'.ch = CharAt(read) /\ read' = read + Len(ret'.ch)
        /\ ( /\ ~HasFlag(flags, ESCAPED)
             /\ level = 0
             /\ read < DataLen
             /\ Byte(read) = escape ) =>
              /\ ret'.kind = "Escaped"
              /\ ~HasFlag(flags', ESCAPED)
              /\ read + 1 < DataLen =>
                    ret'.ch = CharAt(read + 1) /\ read' = read + 1 + Len(ret'.ch)
        /\ ( /\ ret'.kind = "Normal"
             /\ ret'.end < DataLen
             /\ Byte(ret'.end) = escape ) =>
              /\ HasFlag(flags', ESCAPED)
              /\ read' = ret'.end + 1
        /\ ret'.kind = "Escaped" => level' = 0
        /\ ( /\ ret = Escaped(<<DOLLAR>>)
             /\ read < DataLen
             /\ Byte(read) = LBRACE
             /\ escape # LBRACE ) =>
              /\ ret'.kind = "Normal"
              /\ ret'.start = read

C7_EscapeServedNext == [][C7_Step]_vars

\* Text, then an escaped '$', then text that begins with '{': no Key.
C7_Witness ==
    /\ Len(out) = 3
    /\ out[1].kind = "Normal"
    /\ out[2] = Escaped(<<DOLLAR>>)
    /\ out[3].kind = "Normal"
    /\ Byte(out[3].start) = LBRACE
    /\ KeysOf(out) = {}

\* C8, for one call of next(): when the call reaches the end of the input at
\* depth > 0 it returns a Key token whose text runs from the start of the
\* unbalanced placeholder to the end of the input, and whose flag tells whether
\* a nested opening was seen (a "${" followed by at least one more byte).
C8_Step ==
    (read < DataLen /\ read' = DataLen /\ level' > 0) =>
        /\ ret'.kind = "Key"
        /\ ret'.end = DataLen
        /\ ret'.start = IF level > 0 THEN read ELSE read + 2
        /\ Byte(ret'.start - 2) = DOLLAR
        /\ Byte(ret'.start - 1) = LBRACE
        /\ Balance(ret'.start, 1) = -1
        /\ ret'.nested <=>
              \E j \in ret'.start..(DataLen - 3) :
                  Byte(j) = DOLLAR /\ Byte(j + 1) = LBRACE

C8_UnterminatedKey == [][C8_Step]_vars

\* Text, then a key cut off by the end of the input with an opening nested in it.
C8_Witness ==
    /\ Len(out) = 2
    /\ out[1].kind = "Normal"
    /\ out[2].kind = "Key"
    /\ out[2].end = DataLen
    /\ out[2].nested
    /\ level > 0

RECURSIVE Flatten(_)
Flatten(ws) == IF ws = <<>> THEN <<>> ELSE Head(ws) \o Flatten(Tail(ws))

\* C9: when the closure returned Err(e), expand has returned Err(e), has made
\* no next() call after the one whose token the closure failed on, and neither
\* invokes the closure nor writes to the buffer again.
C9_ErrStopsExpand ==
    exMapRet.kind = "Err" =>
        /\ exPc = "returned"
        /\ exRes = Err(exMapRet.val)
        /\ exPulls = Len(exCalls)
        /\ exOut = Flatten(exWrites)

\* expand returned an error on its second token with input left unread.
C9_Witness ==
    /\ exPc = "returned"
    /\ exRes.kind = "Err"
    /\ Len(exCalls) = 2
    /\ read < DataLen

\* The tokens next() produced since the current expand began.
SinceBegin == SubSeq(out, exBase + 1, Len(out))

\* C10: the closure is invoked once per token, in the scanner's order, while
\* it returns Ok(true); expand returns when the closure returns Ok(false) or
\* the scanner is exhausted, and then returns Ok of exactly what the
\* invocations made so far wrote.
C10_OncePerTokenInOrder ==
    /\ Len(exWrites) = Len(exCalls)
    /\ exPc = "pull" =>
          /\ exCalls = SinceBegin
          /\ exPulls = Len(exCalls)
          /\ exMapRet \in {NoReturn, Ok(TRUE)}
    /\ exPc = "map" =>
          /\ Append(exCalls, exTok) = SinceBegin
          /\ exPulls = Len(exCalls) + 1
          /\ exMapRet \in {NoReturn, Ok(TRUE)}
    /\ exPc = "returned" =>
          /\ exCalls = SubSeq(out, exBase + 1, exBase + Len(exCalls))
          /\ \/ exMapRet = Ok(FALSE) /\ exPulls = Len(exCalls)
             \/ exMapRet.kind = "Err"
             \/ /\ exMapRet \in {NoReturn, Ok(TRUE)}
                /\ exPulls = Len(exCalls) + 1
                /\ read = DataLen
          /\ exMapRet.kind # "Err" =>
                exRes = Ok(Flatten(exWrites))

\* expand stopped by Ok(false) on its second token, whose write is in the result.
C10_Witness ==
    /\ exPc = "returned"
    /\ exMapRet = Ok(FALSE)
    /\ Len(exCalls) = 2
    /\ exWrites[1] # <<>>
    /\ exWrites[2] # <<>>
    /\ exRes = Ok(exWrites[1] \o exWrites[2])
    /\ read < DataLen

\* C11, for every step: the cursor stays within 0..len(pattern), never moves
\* back, and is at len(pattern) whenever next() has reported exhaustion.
C11_Step ==
    /\ 0 <= read'
    /\ read' <= DataLen
    /\ read' >= read
    /\ ret'.kind = "None" => read' = DataLen

C11_CursorBoundedMonotone == [][C11_Step]_vars

\* Exhaustion reported after several tokens, the last one a trailing escape
\* (which is served with the cursor already at the end).
C11_Witness ==
    /\ ret.kind = "None"
    /\ read = DataLen
    /\ Len(out) >= 2
    /\ out[Len(out)].kind = "Escaped"
    /\ Byte(DataLen - 1) = escape
    /\ out[Len(out) - 1].kind = "Normal"
    /\ out[Len(out) - 1].end = DataLen - 1

\* The bytes of the pattern.
BytesOf(t) == {t[j] : j \in 1..Len(t)}

\* C12: a pattern with neither the escape byte nor '$' in it is tokenized as
\* one Normal token holding the whole pattern, or as no token when it is empty.
C12_PlainTextIsOneNormal ==
    (escape \notin BytesOf(data) /\ DOLLAR \notin BytesOf(data)) =>
        /\ out \in {<<>>, <<Normal(0, DataLen)>>}
        /\ ret.kind # "NotCalled" =>
              out = IF DataLen = 0 THEN <<>> ELSE <<Normal(0, DataLen)>>
        /\ ret.kind \in {"NotCalled", "None", "Normal"}

\* A pattern of braces and other plain bytes tokenized to exhaustion.
C12_Witness ==
    /\ escape \notin BytesOf(data)
    /\ DOLLAR \notin BytesOf(data)
    /\ LBRACE \in BytesOf(data)
    /\ RBRACE \in BytesOf(data)
    /\ ret.kind = "None"
    /\ out = <<Normal(0, DataLen)>>

\* C13: is_empty() returns true exactly when len() is 0 and false otherwise,
\* and changes nothing of the tokenizer.
C13_IsEmptyIffLenZero ==
    query.kind = "is_empty" => (query.val <=> DataLen = 0)

\* C14: whatever byte is installed as the escape byte, next() never fails:
\* every slice and every decode happens on a code-point boundary.
C14_NeverFails == ret.kind # "Panic"

\* The end of the key whose text begins at offset a: the '}' that balances its
\* opening, counted without any regard to the escape byte, or the end of the
\* input when there is none.
KeyEnd(a) == IF Balance(a, 1) = -1 THEN DataLen ELSE Balance(a, 1)

\* C15, for one call of next(): while the depth is above 0 the escape byte has
\* no effect. A call that collects a key (the depth is above 0 at the call, or
\* the call begins at an outermost "${") returns the Key that ends where the
\* braces alone say it ends, whatever escape bytes lie in it, and does not arm
\* the pending escape.
C15_Step ==
    NextStep =>
        /\ (level > 0 /\ read < DataLen) =>
              /\ ret'.kind = "Key"
              /\ ret'.start = read
              /\ ret'.end = KeyEnd(read)
              /\ ~HasFlag(flags', ESCAPED)
              /\ read' = IF KeyEnd(read) < DataLen THEN KeyEnd(read) + 1 ELSE DataLen
        /\ ( /\ level = 0
             /\ ~HasFlag(flags, ESCAPED)
             /\ DataLen - read > 2
             /\ Byte(read) = DOLLAR
             /\ Byte(read + 1) = LBRACE
             /\ escape # DOLLAR ) =>
              /\ ret'.kind = "Key"
              /\ ret'.start = read + 2
              /\ ret'.end = KeyEnd(read + 2)
              /\ ~HasFlag(flags', ESCAPED)

C15_EscapeInertInKey == [][C15_Step]_vars

\* A key whose text ends with the escape byte, closed by the '}' after it.
C15_Witness ==
    /\ ret.kind = "Key"
    /\ ret.end < DataLen
    /\ ret.end > ret.start
    /\ Byte(ret.end - 1) = escape
    /\ escape # RBRACE

\* No escape byte and no '$' at offsets a..p-1.
PlainUpTo(a, p) == \A j \in a..(p - 1) : Byte(j) # escape /\ Byte(j) # DOLLAR

\* C16, for one call of next(): the depth never goes below 0, and a '}' met at
\* depth 0 is no delimiter: the call returns a Normal token that holds it, no
\* Key, and the depth is left at 0 unless that Normal ends at an opening "${".
C16_Step ==
    NextStep =>
        /\ level' >= 0
        /\ level' < 256
        /\ \A p \in read..(DataLen - 1) :
              ( /\ level = 0
                /\ ~HasFlag(flags, ESCAPED)
                /\ Byte(p) = RBRACE
                /\ escape # RBRACE
                /\ PlainUpTo(read, p) ) =>
                  /\ ret'.kind = "Normal"
                  /\ ret'.start = read
                  /\ ret'.end > p
                  /\ level' \in {0, 1}
                  /\ level' = 1 =>
                        /\ Byte(ret'.end) = DOLLAR
                        /\ Byte(ret'.end + 1) = LBRACE
                        /\ read' = ret'.end + 2

C16_CloseAtDepthZeroIsText == [][C16_Step]_vars

\* A closed key followed by a Normal token that begins with '}'.
C16_Witness ==
    /\ Len(out) = 2
    /\ out[1].kind = "Key"
    /\ out[1].end < DataLen
    /\ out[2].kind = "Normal"
    /\ out[2].start = out[1].end + 1
    /\ Byte(out[2].start) = RBRACE
    /\ level = 0

\* C17: no Normal token with empty text is ever emitted.
C17_NoEmptyNormal ==
    /\ \A i \in NormalsOf(out) : out[i].start < out[i].end
    /\ ret.kind = "Normal" => ret.start < ret.end

\* Two keys with nothing between them, and nothing before the first: the
\* places where an empty Normal would be.
C17_Witness ==
    /\ Len(out) >= 2
    /\ out[1].kind = "Key"
    /\ out[1].start = 2
    /\ out[2].kind = "Key"
    /\ out[2].start = out[1].end + 3

\* C18: a pattern of n bytes yields at most n tokens, and once next() has
\* returned None every later call returns None and leaves the cursor, the
\* depth and the flags as they are.
C18_FiniteThenNone ==
    /\ Len(out) <= DataLen
    /\ ret.kind = "None" =>
          /\ NextCall = Outcome(read, flags, level, NoToken)
          /\ read = DataLen
          /\ ~HasFlag(flags, ESCAPED)

\* Exhaustion after as many tokens as the pattern has bytes, the depth still
\* above 0 or not.
C18_Witness ==
    /\ ret.kind = "None"
    /\ DataLen >= 2
    /\ Len(out) = DataLen

\* The offsets of the openings that the loop can recognise (a "${" with at
\* least one byte after it).
Openings == {i \in 0..(DataLen - 3) : Byte(i) = DOLLAR /\ Byte(i + 1) = LBRACE}

\* C19: the depth counter never overflows or wraps its 8-bit storage: a pattern
\* that begins with 256 or more consecutive "${" is tokenized without failure,
\* its first token is the Key that begins after the first "${", and when
\* nothing closes an opening the depth left by that token is the number of
\* openings.
C19_DepthNeverWraps ==
    /\ ret.kind # "Panic"
    /\ ( /\ Len(out) >= 1
         /\ DataLen > 2
         /\ Byte(0) = DOLLAR
         /\ Byte(1) = LBRACE
         /\ escape # DOLLAR ) =>
          /\ out[1].kind = "Key"
          /\ out[1].start = 2
          /\ (RBRACE \notin BytesOf(data) /\ Len(out) = 1 /\ ret = out[1]) =>
                level = Cardinality(Openings)

\* One call of next() on a tokenizer whose cursor, flags and depth are those
\* of st.
NextFrom(st) ==
    IF HasFlag(st.flags, ESCAPED)
    THEN escaped_character(st.read, ToggleFlag(st.flags, ESCAPED), st.level)
    ELSE IF st.read >= DataLen THEN Outcome(st.read, st.flags, st.level, NoToken)
    ELSE Scan(st.read, st.flags, st.level, st.read)

\* A fresh tokenizer on the same pattern with the same escape byte, after n
\* direct calls of next().
RECURSIVE Replay(_)
Replay(n) ==
    IF n = 0 THEN Outcome(0, 0, 0, NotCalled)
    ELSE LET before == Replay(n - 1) IN NextFrom(before)

\* expand has returned because the closure returned Ok(false) or Err.
StoppedEarly ==
    /\ exPc = "returned"
    /\ exMapRet = Ok(FALSE) \/ exMapRet.kind = "Err"

\* C20, for every step: the step in which the closure's answer stops expand
\* leaves the scanner as the pull of the stopping token left it, with exactly
\* the tokens handed to the closure produced; and the next call made
\* afterwards, by next() or by the first pull of another expand, does what the
\* call after that many tokens does on a directly iterated tokenizer: it
\* produces the token that follows the stopping token.
C20_Step ==
    /\ (exPc = "map" /\ StoppedEarly') =>
          /\ <<read', flags', level', ret', out'>> =
                <<read, flags, level, ret, out>>
          /\ ret' = exCalls'[Len(exCalls')]
          /\ Len(out') = exBase' + Len(exCalls')
          /\ exCalls' = SubSeq(out', exBase' + 1, Len(out'))
    /\ ((StoppedEarly \/ (exPc = "pull" /\ exPulls = 0)) /\ NextStep) =>
          LET direct == Replay(Len(out) + 1) IN
          /\ <<read', flags', level', ret'>> =
                <<direct.read, direct.flags, direct.level, direct.ret>>
          /\ IsToken(ret') => out' = Append(out, ret')

C20_EarlyStopKeepsPlace == [][C20_Step]_vars

\* expand stopped by Ok(false) after at least one token while tokens remained,
\* and a later call of next() produced the token that follows.
C20_Witness ==
    /\ exPc = "returned"
    /\ exMapRet = Ok(FALSE)
    /\ Len(exCalls) >= 1
    /\ Len(out) = exBase + Len(exCalls) + 1
    /\ IsToken(ret)
    /\ ret = out[Len(out)]

====
